---- MODULE Spec2Model ----
(***************************************************************************)
(* SEO audit tool: the Crawler engine (server/src/services/crawler.ts) and *)
(* the audit orchestration runAudit (server/src/routes/audit.ts).          *)
(*                                                                         *)
(* The program runs on one cooperative event loop.  An action of this      *)
(* module is one run-to-completion turn of that loop: everything the code  *)
(* executes between two suspension points (an awaited network call, the    *)
(* 100 ms timer of processQueue, a setTimeout).                            *)
(***************************************************************************)
EXTENDS Integers, Sequences, FiniteSets, TLC

(* ---- bounds of the model ---- *)
MaxLinks == 2            \* longest list of links extracted from one page
MaxPagesBound == 3       \* config.maxPages ranges over 1..MaxPagesBound
MaxDepthBound == 1       \* config.maxDepth ranges over 0..MaxDepthBound
MaxConcBound == 2        \* config.maxConcurrentRequests ranges over 1..MaxConcBound
MaxAnchors == 2          \* most anchors on one analysed page
MaxPagesAnalysed == 3    \* longest result list handed to the analysis
MaxIssueCount == 21       \* calculateSiteHealthScore: largest errors or warnings count
MaxTotalPages == 25       \* calculateSiteHealthScore: largest totalPages

VARIABLES
  config,          \* Crawler.config
  visited,         \* Crawler.visited
  queue,           \* Crawler.queue
  results,         \* Crawler.results
  robotsTxt,       \* Crawler.robotsTxt
  activeRequests,  \* Crawler.activeRequests
  stopped,         \* Crawler.stopped
  pc,              \* where crawl() is suspended
  inflight,        \* the crawlPage calls awaiting axios.get
  events,          \* the 'progress' events emitted so far
  log,             \* history: what processQueue did with each item it dequeued
  auditStatus,     \* the audit row's status column
  auditProgress,   \* the auditProgress map entry of the audit id
  writes,          \* history: statuses passed to auditProgress.set, in order
  auditPc,         \* where runAudit is
  pageRows,        \* the rows of table pages that carry the audit's id (a count)
  resultsStored,   \* whether the audit row's results column holds a payload
  auditUrl,        \* runAudit's url, as analyzeCrawlResults gets it
  crawlResults,    \* the FetchResults handed to the analysis
  pageDataList,    \* the PageData list of runAudit (its pages)
  anaPc,           \* which step of the analysis comes next
  probes,          \* history: the HEAD outcomes of the last checkExternalLinks
  report,          \* the summary data runAudit computes from its pages
  groupCalls,      \* history: how often groupIssues has run on the list
  scoreArgs,       \* the arguments of a call of calculateSiteHealthScore
  siteHealthScore, \* what that call returned
  sse,             \* the progress stream of one subscriber: its connection
  sseLast,         \* the status of the last message written to the stream
  sseMustTick      \* the stream's 500 ms interval fires before the 60 s timer

(* the audit's rows in the database, besides the status column *)
storeVars == <<pageRows, resultsStored>>

(* the analysis of one crawl: analyzer.ts and the aggregation of helpers.ts *)
analysisVars == <<auditUrl, crawlResults, pageDataList, anaPc, probes,
                  report, groupCalls>>

scoreVars == <<scoreArgs, siteHealthScore>>

(* GET /:id/progress, for one subscriber *)
streamVars == <<sse, sseLast, sseMustTick>>

(* the crawler and the audit's status and progress *)
crawlVars == <<config, visited, queue, results, robotsTxt, activeRequests, stopped,
               pc, inflight, events, log, auditStatus, auditProgress, writes, auditPc>>

vars == <<config, visited, queue, results, robotsTxt, activeRequests, stopped,
          pc, inflight, events, log, auditStatus, auditProgress, writes, auditPc,
          pageRows, resultsStored, auditUrl, crawlResults, pageDataList, anaPc, probes,
          report, groupCalls, scoreArgs, siteHealthScore, sse, sseLast, sseMustTick>>

(* ---- URLs ---- *)
(* A URL is kept as its parts: scheme, host, path (the sequence of its     *)
(* segments), the extension of the path, and whether it carries a fragment *)
(* or a tracking parameter.                                                *)
Url(h, p, e, t) == [scheme |-> "https", host |-> h, path |-> p, ext |-> e, track |-> t]

Root == <<>>

PageA == <<"a">>

PageB == <<"b">>

StartUrl == Url("site", Root, "", FALSE)

EmptyUrl == [scheme |-> "", host |-> "", path |-> <<>>, ext |-> "", track |-> FALSE]

SitePaths == {Root, PageA, PageB}

(* What an anchor of a fetched page may point to.  A link back to the     *)
(* start page is left out: the start URL is visited before any page is     *)
(* fetched, so crawlPage drops such a link like the external one here.     *)
LinkUrls ==
  {Url("site", p, "", FALSE) : p \in SitePaths \ {Root}}
    \cup {Url("site", PageA, "", TRUE),
          Url("other", Root, "", FALSE)}

sanitizeUrlForCrawl(url) == [url EXCEPT !.track = FALSE]

skipExtensions == {".pdf", ".jpg", ".css", ".js"}

shouldCrawlUrl(url) ==
  /\ url.scheme \in {"http", "https"}
  /\ url.ext \notin skipExtensions

isInternalLink(baseUrl, linkUrl) == baseUrl.host = linkUrl.host

(* ---- robots ---- *)
NoRobots == [present |-> FALSE, disallow |-> {}]

IsPrefix(d, p) == Len(d) <= Len(p) /\ SubSeq(p, 1, Len(d)) = d

(* the Disallow lines of a robots.txt, none of them covered by another *)
DisallowSets ==
  {d \in SUBSET SitePaths : \A x, y \in d : IsPrefix(x, y) => x = y}

RobotsOutcomes ==
  {NoRobots} \cup {[present |-> TRUE, disallow |-> d] : d \in DisallowSets}

(* robots-parser's isAllowed: true, false, or undefined for a URL that is  *)
(* not of the robots.txt's origin.  A Disallow line matches by prefix.     *)
robotsIsAllowed(rt, url) ==
  IF url.host # StartUrl.host \/ url.scheme # StartUrl.scheme THEN "undefined"
  ELSE IF \E d \in rt.disallow : IsPrefix(d, url.path) THEN "false"
  ELSE "true"

isAllowedByRobots(rt, url) ==
  IF ~rt.present THEN TRUE
  ELSE robotsIsAllowed(rt, url) # "false"

(* ---- progress ---- *)
Round(num, den) == (2 * num + den) \div (2 * den)

(* emitProgress called before results.push: the count lags by one *)
ProgressStale(status, pagesCrawled, totalPagesFound, currentUrl) ==
  [status |-> status,
   pagesCrawled |-> IF pagesCrawled > 0 THEN pagesCrawled - 1 ELSE 0,
   totalPagesFound |-> totalPagesFound,
   currentUrl |-> currentUrl,
   percentComplete |-> 0,
   error |-> FALSE]

Progress(status, pagesCrawled, totalPagesFound, currentUrl) ==
  [status |-> status,
   pagesCrawled |-> pagesCrawled,
   totalPagesFound |-> totalPagesFound,
   currentUrl |-> currentUrl,
   percentComplete |->
     IF totalPagesFound > 0 THEN Round(pagesCrawled * 100, totalPagesFound) ELSE 0,
   error |-> FALSE]

Max(a, b) == IF a >= b THEN a ELSE b

(* the entries runAudit writes itself carry a literal percentComplete *)
AuditEntry(status, pages, percent, err) ==
  [status |-> status,
   pagesCrawled |-> pages,
   totalPagesFound |-> pages,
   currentUrl |-> IF status = "initializing" THEN StartUrl ELSE EmptyUrl,
   percentComplete |-> percent,
   error |-> err]

NoEntry == AuditEntry("none", 0, 0, FALSE)

(* ---- Crawler.processQueue ---- *)
(* The crawler state a synchronous run of processQueue reads and writes.   *)
CrawlerState ==
  [queue |-> queue, visited |-> visited, activeRequests |-> activeRequests,
   inflight |-> inflight, log |-> log, pc |-> pc, robotsTxt |-> robotsTxt]

(* the outer while without its test of stopped *)
OuterContinueIgnoreStop(s) ==
  Len(s.queue) > 0 \/ s.activeRequests > 0

(* the condition of the outer while *)
OuterContinue(s) ==
  (Len(s.queue) > 0 \/ s.activeRequests > 0) /\ ~stopped

(* the condition of the inner while, without and with the concurrency cap *)
InnerContinueUncapped(s) ==
  /\ Len(s.queue) > 0
  /\ Len(results) < config.maxPages
  /\ ~stopped

InnerContinue(s) ==
  /\ Len(s.queue) > 0
  /\ s.activeRequests < config.maxConcurrentRequests
  /\ Len(results) < config.maxPages
  /\ ~stopped

(* the visited test left out *)
AlreadyVisitedNever(s, normalizedUrl) == FALSE

AlreadyVisited(s, normalizedUrl) == normalizedUrl \in s.visited

(* the depth test left out *)
DepthExceededNever(item) == FALSE

DepthExceeded(item) == item.depth > config.maxDepth

Logged(s, item, what) ==
  Append(s.log, [url |-> item.url, depth |-> item.depth, outcome |-> what])

(* one pass of the inner while: shift one item, skip it or start its fetch *)
DequeueOne(s) ==
  LET item == Head(s.queue)
      normalizedUrl == sanitizeUrlForCrawl(item.url)
      rest == [s EXCEPT !.queue = Tail(s.queue)]
  IN  IF AlreadyVisited(s, normalizedUrl)
        THEN [rest EXCEPT !.log = Logged(s, item, "visited")]
      ELSE IF DepthExceeded(item)
        THEN [rest EXCEPT !.log = Logged(s, item, "depth")]
      ELSE IF ~isAllowedByRobots(s.robotsTxt, normalizedUrl)
        THEN [rest EXCEPT !.log = Logged(s, item, "robots")]
      ELSE [rest EXCEPT
              !.visited = @ \cup {normalizedUrl},
              !.activeRequests = @ + 1,
              !.inflight = @ \cup {[url |-> normalizedUrl, depth |-> item.depth]},
              !.log = Logged(s, item, "fetch")]

RECURSIVE InnerLoop(_)
InnerLoop(s) == IF InnerContinue(s) THEN InnerLoop(DequeueOne(s)) ELSE s

(* processQueue from the top of its outer while to its next suspension:    *)
(* "wait" is the 100 ms timer, "drain" the final Promise.all.  With no     *)
(* fetch in flight and a queue the inner while will not touch, the outer   *)
(* while iterates again at once on the same state: "spin".                 *)
ProcessQueue(s) ==
  IF ~OuterContinue(s) THEN [s EXCEPT !.pc = "drain"]
  ELSE LET t == InnerLoop(s)
       IN  IF t.activeRequests > 0 THEN [t EXCEPT !.pc = "wait"]
           ELSE IF Len(t.queue) = 0 THEN [t EXCEPT !.pc = "drain"]
           ELSE [t EXCEPT !.pc = "spin"]

(* ---- Crawler.crawlPage ---- *)
RECURSIVE LinkLists(_)
LinkLists(n) ==
  IF n = 0 THEN {<<>>}
  ELSE LET shorter == LinkLists(n - 1)
       IN  shorter \cup
           {Append(l, u) : l \in {x \in shorter : Len(x) = n - 1}, u \in LinkUrls}

Distinct(l) == \A i, j \in 1..Len(l) : i # j => l[i] # l[j]

(* what extractLinks returns: absolute URLs, no duplicates *)
ExtractedLinks == {l \in LinkLists(MaxLinks) : Distinct(l)}

(* what axios.get can do: reject, or resolve with any status *)
Responses ==
  {[kind |-> "error", status |-> 0, isString |-> FALSE, links |-> <<>>]}
    \cup {[kind |-> "ok", status |-> 404, isString |-> TRUE, links |-> <<>>],
          [kind |-> "ok", status |-> 200, isString |-> FALSE, links |-> <<>>]}
    \cup {[kind |-> "ok", status |-> 200, isString |-> TRUE, links |-> l] :
            l \in ExtractedLinks}

(* the catch block leaving error unset *)
CrawlResultDropError(url, resp) ==
  [url |-> url, statusCode |-> resp.status, html |-> FALSE, error |-> FALSE]

CrawlResult(url, resp) ==
  IF resp.kind = "error"
    THEN [url |-> url, statusCode |-> 0, html |-> FALSE, error |-> TRUE]
    ELSE [url |-> url, statusCode |-> resp.status, html |-> resp.isString,
          error |-> FALSE]

ShouldExtract(resp) ==
  /\ resp.kind = "ok"
  /\ resp.status >= 200
  /\ resp.status < 400
  /\ resp.isString
  /\ Len(results) < config.maxPages

ShouldEnqueue(link, q) ==
  /\ isInternalLink(StartUrl, link)
  /\ shouldCrawlUrl(link)
  /\ sanitizeUrlForCrawl(link) \notin visited
  /\ Len(results) + Len(q) < config.maxPages

RECURSIVE EnqueueLinks(_, _, _)
EnqueueLinks(links, q, depth) ==
  IF links = <<>> THEN q
  ELSE EnqueueLinks(Tail(links),
                    IF ShouldEnqueue(Head(links), q)
                      THEN Append(q, [url |-> Head(links), depth |-> depth + 1])
                      ELSE q,
                    depth)

(* ---- the turns of the event loop ---- *)
Statuses(evs) == [i \in 1..Len(evs) |-> evs[i].status]

Last(seq) == seq[Len(seq)]

(* the end of a turn with runAudit's 'analyzing' step put off to a later   *)
(* turn: the entry the crawler's 'complete' event wrote is left standing   *)
EndTurnLeavingCrawlEntry(t, res, evs, pre) ==
  LET returns == t.pc = "drain" /\ t.inflight = {}
      emitted == IF returns
                   THEN Append(evs, Progress("complete", Len(res), Len(res), EmptyUrl))
                   ELSE evs
  IN  /\ queue' = t.queue
      /\ visited' = t.visited
      /\ activeRequests' = t.activeRequests
      /\ inflight' = t.inflight
      /\ log' = t.log
      /\ robotsTxt' = t.robotsTxt
      /\ results' = res
      /\ pc' = IF returns THEN "returned" ELSE t.pc
      /\ events' = events \o emitted
      /\ writes' = writes \o pre \o Statuses(emitted)
                          \o (IF returns THEN <<"analyzing">> ELSE <<>>)
      /\ auditProgress' = IF emitted # <<>> THEN Last(emitted) ELSE auditProgress
      /\ auditStatus' = IF returns THEN "analyzing" ELSE "crawling"
      /\ auditPc' = IF returns THEN "analyzing" ELSE "crawling"

(* The end of a turn that ran crawler code: t is the crawler state it      *)
(* leaves, res the result list, evs the progress events it emitted.  Each  *)
(* event goes through runAudit's callback into auditProgress.  When        *)
(* processQueue has left its loop and no fetch is pending, Promise.all     *)
(* resolves in the same turn: crawl emits 'complete' and returns, and      *)
(* runAudit goes on to its 'analyzing' step.                               *)
EndTurn(t, res, evs, pre) ==
  LET returns == t.pc = "drain" /\ t.inflight = {}
      emitted == IF returns
                   THEN Append(evs, Progress("complete", Len(res), Len(res), EmptyUrl))
                   ELSE evs
  IN  /\ queue' = t.queue
      /\ visited' = t.visited
      /\ activeRequests' = t.activeRequests
      /\ inflight' = t.inflight
      /\ log' = t.log
      /\ robotsTxt' = t.robotsTxt
      /\ results' = res
      /\ pc' = IF returns THEN "returned" ELSE t.pc
      /\ events' = events \o emitted
      /\ writes' = writes \o pre \o Statuses(emitted)
                          \o (IF returns THEN <<"analyzing">> ELSE <<>>)
      /\ auditProgress' =
           IF returns THEN AuditEntry("analyzing", Len(res), 75, FALSE)
           ELSE IF emitted # <<>> THEN Last(emitted)
           ELSE auditProgress
      /\ auditStatus' = IF returns THEN "analyzing" ELSE "crawling"
      /\ auditPc' = IF returns THEN "analyzing" ELSE "crawling"

(* crawl() after robots.txt: seed the queue, emit, enter processQueue *)
BeginCrawl(rt, pre) ==
  LET s == [CrawlerState EXCEPT
              !.queue = <<[url |-> StartUrl, depth |-> 0]>>,
              !.robotsTxt = rt]
  IN  EndTurn(ProcessQueue(s), results, <<Progress("crawling", 0, 1, StartUrl)>>, pre)

(* ---- the analysis: URL strings ---- *)
(* The analyzer compares URLs as strings.  A string is kept as its stem,   *)
(* which does not end in "/", and the number of "/" characters after it.   *)
Str(stem, n) == [stem |-> stem, slashes |-> n]

NoString == Str("", 0)

endsWithSlash(s) == s.slashes > 0

(* s.slice(0, -1) of a string that ends in "/" *)
dropSlash(s) == Str(s.stem, s.slashes - 1)

(* s + '/' *)
addSlash(s) == Str(s.stem, s.slashes + 1)

Origin == "https://site"

Blog == "https://site/blog"

PathA == "https://site/a"

PathATracked == "https://site/a?utm_source=x"

External1 == "https://ext.example/x"

External2 == "https://ext.example/y"

(* new URL(s).href: the parser gives a URL without a path the path "/" *)
href(s) == IF s.stem = Origin /\ s.slashes = 0 THEN addSlash(s) ELSE s

(* sanitizeUrlForCrawl on strings: the tracking parameter goes, and what   *)
(* is left is serialized                                                   *)
sanitizeHref(s) == href(IF s.stem = PathATracked THEN Str(PathA, 0) ELSE s)

(* isInternalLink(baseUrl, link): the same hostname *)
isInternalHref(s) == s.stem \notin {External1, External2}

(* normalizeUrl: one trailing slash is removed *)
normalizeUrl(s) == IF endsWithSlash(s) THEN dropSlash(s) ELSE s

(* what a user may post, and what runAudit is then started on *)
PostedUrls == {Str(Origin, 0), Str(Origin, 1), Str(Blog, 0), Str(Blog, 1)}

BaseUrls == {normalizeUrl(u) : u \in PostedUrls}

(* the targets of the anchors of a page, resolved: a page of the site, the *)
(* same with a trailing slash, the same with a tracking parameter, and two *)
(* pages of another site                                                   *)
LinkHrefs ==
  <<Str(PathA, 0), Str(PathA, 1), Str(PathATracked, 0),
    Str(External1, 0), Str(External2, 0)>>

(* ---- the analysis: what was fetched ---- *)
TitleMaxLength == 60

TitleMinLength == 30

MetaDescriptionMaxLength == 160

MetaDescriptionMinLength == 70

MinTextToHtmlRatio == 10

MaxPageSize == 3 * 1024 * 1024

MaxResponseTime == 3000

RedirectChainHops == 3

(* An HTML document is kept as what the selectors of analyzePage find in   *)
(* it: the length of the trimmed title and of the trimmed meta             *)
(* description (0: none), the number of h1 elements, whether canonical,    *)
(* viewport and robots meta have a non-empty value, the Open Graph         *)
(* properties present, the number of img elements and of those without     *)
(* alt text, the length of the visible text and of the markup, the anchors.*)
NoHtml == [kind |-> "none"]

Document(t, d, h, c, v, r, og, img, text, size, as) ==
  [kind |-> "html", title |-> t, metaDescription |-> d, h1 |-> h,
   canonical |-> c, viewport |-> v, robotsMeta |-> r, og |-> og,
   images |-> img, textLength |-> text, htmlLength |-> size, anchors |-> as]

htmlLength(html) == IF html = NoHtml THEN 0 ELSE html.htmlLength

OgProperties == {"title", "description", "image"}

TitleLengths == {0, TitleMinLength - 1, 45, TitleMaxLength + 1}

DescriptionLengths == {0, MetaDescriptionMinLength - 1, 100, MetaDescriptionMaxLength + 1}

H1Counts == {0, 1, 2}

OgSets == {{}, {"title"}, OgProperties}

ImageCounts == {[total |-> 0, withoutAlt |-> 0], [total |-> 2, withoutAlt |-> 0],
                [total |-> 2, withoutAlt |-> 1]}

(* a page of 2000 characters with 199 or 200 characters of visible text,   *)
(* and one just over the size limit                                        *)
TextAndSize == {<<199, 2000>>, <<200, 2000>>, <<1000000, MaxPageSize + 1>>}

(* one page in every combination of what analyzePage looks at *)
DetailedDocuments ==
  {Document(t, d, h, c, v, r, og, img, ts[1], ts[2], <<>>) :
     t \in TitleLengths, d \in DescriptionLengths, h \in H1Counts,
     c \in BOOLEAN, v \in BOOLEAN, r \in BOOLEAN, og \in OgSets,
     img \in ImageCounts, ts \in TextAndSize}

(* a page with nothing to report but its anchors *)
PlainDocument(as) ==
  Document(45, 100, 1, TRUE, TRUE, TRUE, OgProperties,
           [total |-> 0, withoutAlt |-> 0], 200, 2000, as)

(* crawlPage's result, without the headers *)
FetchResult(url, status, time, html, hops, err) ==
  [url |-> url, statusCode |-> status, responseTime |-> time, html |-> html,
   redirectChain |-> hops, error |-> err]

(* ---- the analysis: analyzePage ---- *)
ErrorCodes ==
  {"broken_internal_link", "broken_external_link", "server_error_5xx",
   "missing_title", "redirect_chain", "redirect_loop"}

WarningCodes ==
  {"missing_meta_description", "missing_h1", "multiple_h1", "low_text_html_ratio",
   "title_too_long", "title_too_short", "meta_description_too_long",
   "meta_description_too_short", "missing_canonical", "missing_viewport",
   "missing_alt_text", "large_page_size", "slow_response", "orphan_page",
   "missing_og_tags", "missing_robots_meta"}

(* ISSUE_DEFINITIONS, its type column *)
IssueDefinitions ==
  [c \in ErrorCodes \cup WarningCodes |-> IF c \in ErrorCodes THEN "error" ELSE "warning"]

(* An Issue without its title and description, which follow from the code *)
createIssue(code) ==
  [type |-> IF code \in DOMAIN IssueDefinitions THEN IssueDefinitions[code] ELSE "warning",
   code |-> code, urls |-> <<>>, count |-> 1]

(* if (cond) issues.push(createIssue(code)) *)
PushIf(cond, code) == IF cond THEN <<createIssue(code)>> ELSE <<>>

RECURSIVE Unique(_)
Unique(seq) ==
  IF seq = <<>> THEN <<>>
  ELSE LET front == Unique(SubSeq(seq, 1, Len(seq) - 1))
           x == seq[Len(seq)]
       IN  IF \E i \in 1..Len(front) : front[i] = x THEN front ELSE Append(front, x)

PageData(url, status, h1Count, internal, external, issues) ==
  [url |-> url, statusCode |-> status, h1Count |-> h1Count,
   internalLinks |-> internal, externalLinks |-> external, issues |-> issues]

(* the checks of the response with the redirect test off by one *)
StatusIssuesLongerChain(result) ==
  PushIf(result.statusCode >= 500, "server_error_5xx")
    \o PushIf(result.redirectChain > RedirectChainHops, "redirect_chain")

StatusIssues(result) ==
  PushIf(result.statusCode >= 500, "server_error_5xx")
    \o PushIf(result.redirectChain >= RedirectChainHops, "redirect_chain")

TitleIssues(title) ==
  IF title = 0 THEN <<createIssue("missing_title")>>
  ELSE PushIf(title > TitleMaxLength, "title_too_long")
         \o PushIf(title < TitleMinLength, "title_too_short")

DescriptionIssues(d) ==
  IF d = 0 THEN <<createIssue("missing_meta_description")>>
  ELSE PushIf(d > MetaDescriptionMaxLength, "meta_description_too_long")
         \o PushIf(d < MetaDescriptionMinLength, "meta_description_too_short")

(* the h1 check with its second test widened and not chained to the first *)
H1IssuesNoElse(h1Count) ==
  PushIf(h1Count = 0, "missing_h1") \o PushIf(h1Count >= 1, "multiple_h1")

H1Issues(h1Count) ==
  IF h1Count = 0 THEN <<createIssue("missing_h1")>>
  ELSE IF h1Count > 1 THEN <<createIssue("multiple_h1")>>
  ELSE <<>>

(* the checks of the head tags and images without the Open Graph one *)
TagIssuesNoOg(html) ==
  PushIf(~html.canonical, "missing_canonical")
    \o PushIf(~html.viewport, "missing_viewport")
    \o PushIf(~html.robotsMeta, "missing_robots_meta")
    \o PushIf(html.images.withoutAlt > 0, "missing_alt_text")

TagIssues(html) ==
  PushIf(~html.canonical, "missing_canonical")
    \o PushIf(~html.viewport, "missing_viewport")
    \o PushIf(~html.robotsMeta, "missing_robots_meta")
    \o PushIf(html.og = {}, "missing_og_tags")
    \o PushIf(html.images.withoutAlt > 0, "missing_alt_text")

(* calculateTextToHtmlRatio(html) < 10, without the division *)
LowTextToHtmlRatio(html) ==
  html.textLength * 100 < MinTextToHtmlRatio * html.htmlLength

SizeAndSpeedIssues(result) ==
  PushIf(LowTextToHtmlRatio(result.html), "low_text_html_ratio")
    \o PushIf(htmlLength(result.html) > MaxPageSize, "large_page_size")
    \o PushIf(result.responseTime > MaxResponseTime, "slow_response")

analyzePage(result) ==
  IF result.html = NoHtml
    THEN PageData(result.url, result.statusCode, 0, <<>>, <<>>, StatusIssues(result))
    ELSE PageData(result.url, result.statusCode, result.html.h1,
                  Unique(SelectSeq(result.html.anchors, isInternalHref)),
                  Unique(SelectSeq(result.html.anchors,
                                   LAMBDA a : ~isInternalHref(a))),
                  StatusIssues(result)
                    \o TitleIssues(result.html.title)
                    \o DescriptionIssues(result.html.metaDescription)
                    \o H1Issues(result.html.h1)
                    \o TagIssues(result.html)
                    \o SizeAndSpeedIssues(result))

(* ---- the analysis: the passes over all pages ---- *)
HasIssue(page, code) == \E k \in 1..Len(page.issues) : page.issues[k].code = code

PushIssue(page, code) == [page EXCEPT !.issues = Append(@, createIssue(code))]

Range(seq) == {seq[i] : i \in 1..Len(seq)}

(* link with its trailing slash removed if it has one, added if not *)
OtherSlashForm(link) == IF endsWithSlash(link) THEN dropSlash(link) ELSE addSlash(link)

(* the set linkedPages of detectOrphanPages *)
LinkedPages(ps, base) ==
  {base, addSlash(base)}
    \cup UNION {{link, OtherSlashForm(link)} :
                  link \in UNION {Range(ps[i].internalLinks) : i \in 1..Len(ps)}}

IsOrphan(page, linked, base) ==
  LET url == page.url
      urlWithSlash == IF endsWithSlash(url) THEN url ELSE addSlash(url)
      urlWithoutSlash == IF endsWithSlash(url) THEN dropSlash(url) ELSE url
  IN  /\ url \notin linked
      /\ urlWithSlash \notin linked
      /\ urlWithoutSlash \notin linked
      /\ url # base
      /\ url # addSlash(base)

(* detectOrphanPages with the home page treated like any other page *)
detectOrphanPagesNoExemption(ps, base) ==
  LET linked == LinkedPages(ps, base) \ {base, addSlash(base)}
  IN  [i \in 1..Len(ps) |->
         IF {ps[i].url, OtherSlashForm(ps[i].url)} \cap linked = {}
           THEN PushIssue(ps[i], "orphan_page")
           ELSE ps[i]]

detectOrphanPages(ps, base) ==
  LET linked == LinkedPages(ps, base)
  IN  [i \in 1..Len(ps) |->
         IF IsOrphan(ps[i], linked, base) THEN PushIssue(ps[i], "orphan_page")
         ELSE ps[i]]

analyzeCrawlResults(rs, base) ==
  detectOrphanPages([i \in 1..Len(rs) |-> analyzePage(rs[i])], base)

(* Map.set and Map.get; get gives 0 where the Map gives undefined: every   *)
(* use of the value treats the two alike                                   *)
MapSet(m, k, v) == [x \in DOMAIN m \cup {k} |-> IF x = k THEN v ELSE m[x]]

MapGet(m, k) == IF k \in DOMAIN m THEN m[k] ELSE 0

(* a || b || c on numbers *)
FirstTruthy(a, b, c) == IF a # 0 THEN a ELSE IF b # 0 THEN b ELSE c

(* the Map crawledUrls of checkBrokenLinks *)
RECURSIVE CrawledUrls(_)
CrawledUrls(rs) ==
  IF rs = <<>> THEN <<>>
  ELSE LET r == rs[Len(rs)]
           m == CrawledUrls(SubSeq(rs, 1, Len(rs) - 1))
       IN  MapSet(MapSet(m, r.url, r.statusCode), OtherSlashForm(r.url), r.statusCode)

LinkStatus(m, link) ==
  FirstTruthy(MapGet(m, link), MapGet(m, addSlash(link)),
              MapGet(m, IF endsWithSlash(link) THEN dropSlash(link) ELSE link))

checkBrokenLinks(ps, rs) ==
  LET m == CrawledUrls(rs)
      broken(link) == LinkStatus(m, link) >= 400 /\ LinkStatus(m, link) < 600
  IN  [i \in 1..Len(ps) |->
         IF /\ \E k \in 1..Len(ps[i].internalLinks) : broken(ps[i].internalLinks[k])
            /\ ~HasIssue(ps[i], "broken_internal_link")
           THEN PushIssue(ps[i], "broken_internal_link")
           ELSE ps[i]]

ExternalLinkSample == 50

RECURSIVE Concat(_)
Concat(seqs) == IF seqs = <<>> THEN <<>> ELSE Head(seqs) \o Concat(Tail(seqs))

(* linksToCheck of checkExternalLinks: the first 50 distinct external links *)
LinksToCheck(ps) ==
  LET all == Unique(Concat([i \in 1..Len(ps) |-> ps[i].externalLinks]))
  IN  SubSeq(all, 1, IF Len(all) < ExternalLinkSample THEN Len(all) ELSE ExternalLinkSample)

(* how a HEAD request can end: a status below 400, one from 400 up, a throw *)
ProbeOutcomes == {"ok", "status>=400", "throws"}

(* brokenLinks of checkExternalLinks, probe giving each request's outcome *)
BrokenLinks(probe) == {link \in DOMAIN probe : probe[link] # "ok"}

RECURSIVE PushIssueTimes(_, _, _)
PushIssueTimes(page, code, n) ==
  IF n = 0 THEN page ELSE PushIssueTimes(PushIssue(page, code), code, n - 1)

(* checkExternalLinks without its hasIssue test *)
checkExternalLinksNoTest(ps, probe) ==
  [i \in 1..Len(ps) |->
     PushIssueTimes(ps[i], "broken_external_link",
                    Len(SelectSeq(ps[i].externalLinks,
                                  LAMBDA link : link \in BrokenLinks(probe))))]

checkExternalLinks(ps, probe) ==
  [i \in 1..Len(ps) |->
     IF /\ \E k \in 1..Len(ps[i].externalLinks) :
              ps[i].externalLinks[k] \in BrokenLinks(probe)
        /\ ~HasIssue(ps[i], "broken_external_link")
       THEN PushIssue(ps[i], "broken_external_link")
       ELSE ps[i]]

(* ---- the aggregation (helpers.ts) ---- *)
CHECKS_PER_PAGE == 16

errorWeight == 10

warningWeight == 2

(* the fraction num / den, den > 0, rounded to the nearest integer, halves  *)
(* upwards, in exact arithmetic                                            *)
RoundDiv(num, den) == (2 * num + den) \div (2 * den)

(* ---- the arithmetic of number (IEEE 754 binary64) ---- *)
(* A natural too wide for the integers at hand is a sequence of limbs in   *)
(* base 2^16, most significant first; <<>> is zero.                        *)
Base == 2^16

RECURSIVE Trim(_)
Trim(x) == IF x # <<>> /\ Head(x) = 0 THEN Trim(Tail(x)) ELSE x

RECURSIVE FromInt(_)
FromInt(n) == IF n = 0 THEN <<>> ELSE Append(FromInt(n \div Base), n % Base)

RECURSIVE ToInt(_)
ToInt(x) == IF x = <<>> THEN 0 ELSE ToInt(SubSeq(x, 1, Len(x) - 1)) * Base + x[Len(x)]

(* x * k + carry, for k and carry below 2^15 *)
RECURSIVE MulSmall(_, _, _)
MulSmall(x, k, carry) ==
  IF x = <<>> THEN FromInt(carry)
  ELSE LET t == x[Len(x)] * k + carry
       IN  Append(MulSmall(SubSeq(x, 1, Len(x) - 1), k, t \div Base), t % Base)

(* quotient and remainder of (r * Base^Len(x) + x) by k, for r < k <= 2^15 *)
RECURSIVE DivSmall(_, _, _)
DivSmall(x, k, r) ==
  IF x = <<>> THEN [q |-> <<>>, r |-> r]
  ELSE LET t == r * Base + Head(x)
           rest == DivSmall(Tail(x), k, t % k)
       IN  [q |-> <<t \div k>> \o rest.q, r |-> rest.r]

RECURSIVE ShiftLeft(_, _)
ShiftLeft(x, s) ==
  IF s = 0 THEN Trim(x)
  ELSE LET c == IF s > 14 THEN 14 ELSE s
       IN  ShiftLeft(MulSmall(x, 2^c, 0), s - c)

(* x shifted right by s bits, and whether a 1 was shifted out *)
RECURSIVE ShiftRight(_, _)
ShiftRight(x, s) ==
  IF s = 0 THEN [q |-> Trim(x), sticky |-> FALSE]
  ELSE LET c == IF s > 14 THEN 14 ELSE s
           d == DivSmall(x, 2^c, 0)
           rest == ShiftRight(d.q, s - c)
       IN  [q |-> rest.q, sticky |-> rest.sticky \/ d.r # 0]

RECURSIVE IntBits(_)
IntBits(n) == IF n = 0 THEN 0 ELSE 1 + IntBits(n \div 2)

BitLength(x) ==
  LET t == Trim(x)
  IN  IF t = <<>> THEN 0 ELSE (Len(t) - 1) * 16 + IntBits(Head(t))

RECURSIVE GeqSameLen(_, _)
GeqSameLen(a, b) ==
  IF a = <<>> THEN TRUE
  ELSE IF Head(a) # Head(b) THEN Head(a) > Head(b)
  ELSE GeqSameLen(Tail(a), Tail(b))

Geq(a, b) ==
  LET x == Trim(a)
      y == Trim(b)
  IN  IF Len(x) # Len(y) THEN Len(x) > Len(y) ELSE GeqSameLen(x, y)

(* a - b for a >= b, both of the same length *)
RECURSIVE SubSameLen(_, _, _)
SubSameLen(a, b, borrow) ==
  IF a = <<>> THEN <<>>
  ELSE LET n == Len(a)
           t == a[n] - b[n] - borrow
       IN  Append(SubSameLen(SubSeq(a, 1, n - 1), SubSeq(b, 1, n - 1),
                             IF t < 0 THEN 1 ELSE 0),
                  IF t < 0 THEN t + Base ELSE t)

RECURSIVE PadTo(_, _)
PadTo(x, n) == IF Len(x) >= n THEN x ELSE PadTo(<<0>> \o x, n)

Sub(a, b) == Trim(SubSameLen(PadTo(a, Len(b)), PadTo(b, Len(a)), 0))

(* A finite number >= 0 is [m, e] of value m * 2^e with m below 2^53.      *)
SignificandBits == 53

(* the number nearest to (x + f) * 2^e, where 0 <= f < 1 and sticky says   *)
(* f > 0: round to nearest, ties to even                                   *)
RoundToNumber(x, e, sticky) ==
  LET s == BitLength(x) - SignificandBits
  IN  IF s <= 0 THEN [m |-> Trim(x), e |-> e]
      ELSE LET upper == ShiftRight(x, s - 1)
               halved == DivSmall(upper.q, 2, 0)
               up == halved.r = 1
                       /\ (upper.sticky \/ sticky \/ halved.q[Len(halved.q)] % 2 = 1)
           IN  [m |-> Trim(IF up THEN MulSmall(halved.q, 1, 1) ELSE halved.q),
                e |-> e + s]

(* a / b of two integers, a >= 0, 0 < b < 2^15 *)
NumberDiv(a, b) ==
  LET scale == 64 + IntBits(b)
      d == DivSmall(ShiftLeft(FromInt(a), scale), b, 0)
  IN  RoundToNumber(d.q, -scale, d.r # 0)

(* x * k for an integer 0 < k < 2^15 *)
NumberMul(x, k) == RoundToNumber(MulSmall(x.m, k, 0), x.e, FALSE)

(* Math.max(0, k - x) for an integer k and a number x with x.e <= 0 *)
MaxZeroOfDifference(k, x) ==
  LET kk == ShiftLeft(FromInt(k), -x.e)
  IN  IF Geq(x.m, kk) THEN [m |-> <<>>, e |-> 0]
      ELSE RoundToNumber(Sub(kk, x.m), x.e, FALSE)

(* Math.round of a number >= 0 with x.e <= 0: floor(x + 0.5) *)
MathRound(x) ==
  IF x.e = 0 THEN ToInt(x.m)
  ELSE (ToInt(ShiftRight(x.m, -x.e - 1).q) + 1) \div 2

(* calculateSiteHealthScore without its Math.max *)
calculateSiteHealthScoreUnclamped(errorsCount, warningsCount, totalPages) ==
  IF totalPages = 0 THEN 0
  ELSE LET totalChecks == totalPages * CHECKS_PER_PAGE
           deductions == errorsCount * errorWeight + warningsCount * warningWeight
       IN  RoundDiv(100 * totalChecks - 100 * deductions, totalChecks)

(* Math.round(Math.max(0, 100 - (deductions / totalChecks) * 100)), each   *)
(* operation rounded as the arithmetic of number rounds it                 *)
calculateSiteHealthScore(errorsCount, warningsCount, totalPages) ==
  IF totalPages = 0 THEN 0
  ELSE LET totalChecks == totalPages * CHECKS_PER_PAGE
           deductions == errorsCount * errorWeight + warningsCount * warningWeight
           score == MaxZeroOfDifference(100, NumberMul(NumberDiv(deductions, totalChecks), 100))
       IN  MathRound(score)

(* the issues of all pages in the order the two loops of groupIssues meet  *)
(* them, each with the url of its page                                     *)
Occurrences(ps) ==
  Concat([i \in 1..Len(ps) |->
            [k \in 1..Len(ps[i].issues) |->
               [url |-> ps[i].url, code |-> ps[i].issues[k].code]]])

(* one round of the inner loop: issueMap is kept as the sequence of its    *)
(* values, in insertion order                                              *)
AddToIssueMap(map, occ) ==
  IF \E g \in 1..Len(map) : map[g].code = occ.code
    THEN [g \in 1..Len(map) |->
            IF map[g].code = occ.code
              THEN [map[g] EXCEPT !.count = @ + 1,
                                  !.urls = IF occ.url \in Range(@) THEN @
                                           ELSE Append(@, occ.url)]
              ELSE map[g]]
    ELSE IF occ.code \in DOMAIN IssueDefinitions
      THEN Append(map, [type |-> occ.code, code |-> occ.code,
                        issueType |-> IssueDefinitions[occ.code],
                        count |-> 1, urls |-> <<occ.url>>])
      ELSE map

RECURSIVE IssueMap(_)
IssueMap(occs) ==
  IF occs = <<>> THEN <<>>
  ELSE AddToIssueMap(IssueMap(SubSeq(occs, 1, Len(occs) - 1)), occs[Len(occs)])

(* the groups left in the order of their insertion *)
SortByCountLeftUnsorted(groups) == groups

(* sort((a, b) => b.count - a.count): stable, the larger count first *)
RECURSIVE SortByCount(_)
SortByCount(groups) ==
  IF groups = <<>> THEN <<>>
  ELSE LET sorted == SortByCount(SubSeq(groups, 1, Len(groups) - 1))
           g == groups[Len(groups)]
           before == {i \in 1..Len(sorted) : sorted[i].count >= g.count}
       IN  [i \in 1..Len(groups) |->
              IF i <= Cardinality(before) THEN sorted[i]
              ELSE IF i = Cardinality(before) + 1 THEN g
              ELSE sorted[i - 1]]

GroupsOfType(ps, type) ==
  SortByCount(SelectSeq(IssueMap(Occurrences(ps)), LAMBDA g : g.issueType = type))

(* groupIssues taking the issues off the pages as it groups them *)
groupIssuesDraining(ps) ==
  [errors |-> GroupsOfType(ps, "error"),
   warnings |-> GroupsOfType(ps, "warning"),
   pages |-> [i \in 1..Len(ps) |-> [ps[i] EXCEPT !.issues = <<>>]]]

(* what groupIssues returns, and the page list as the call leaves it: the  *)
(* function assigns to nothing that is reachable from its argument         *)
groupIssues(ps) ==
  [errors |-> GroupsOfType(ps, "error"),
   warnings |-> GroupsOfType(ps, "warning"),
   pages |-> ps]

(* the loop of calculateCrawledPagesBreakdown with its tests not chained *)
PageCategoryNoElse(page) ==
  (IF page.statusCode >= 300 /\ page.statusCode < 400 THEN {"redirects"} ELSE {})
    \cup (IF page.statusCode >= 400 THEN {"broken"} ELSE {})
    \cup (IF Len(page.issues) > 0 THEN {"withIssues"} ELSE {"healthy"})

(* the counters the loop of calculateCrawledPagesBreakdown raises for a    *)
(* page: the one of the first branch whose test holds                      *)
PageCategory(page) ==
  IF page.statusCode >= 300 /\ page.statusCode < 400 THEN {"redirects"}
  ELSE IF page.statusCode >= 400 THEN {"broken"}
  ELSE IF Len(page.issues) > 0 THEN {"withIssues"}
  ELSE {"healthy"}

(* ---- the analysis: its inputs ---- *)
Crawlable(result) ==
  /\ result.statusCode >= 200
  /\ result.statusCode < 400
  /\ result.html # NoHtml

RECURSIVE PickHrefs(_)
PickHrefs(S) ==
  IF S = {} THEN <<>>
  ELSE LET m == CHOOSE x \in S : \A y \in S : y <= x
       IN  Append(PickHrefs(S \ {m}), LinkHrefs[m])

(* the anchors of a page: up to MaxAnchors of LinkHrefs *)
AnchorLists ==
  {PickHrefs(S) : S \in {T \in SUBSET (1..Len(LinkHrefs)) : Cardinality(T) <= MaxAnchors}}

(* what the fetch of url can give: a page with some anchors, an error page *)
(* with markup, a response without markup, a transport failure             *)
SiteResults(url) ==
  {FetchResult(url, 200, 200, PlainDocument(as), 0, FALSE) : as \in AnchorLists}
    \cup {FetchResult(url, 404, 200, PlainDocument(as), 0, FALSE) :
             as \in {<<>>, <<Str(External1, 0)>>}}
    \cup {FetchResult(url, s, 200, NoHtml, 0, FALSE) : s \in {301, 503}}
    \cup {FetchResult(url, 0, 200, NoHtml, 0, TRUE)}

(* the URLs the crawler has queued after the results rs and not fetched *)
Frontier(rs) ==
  {sanitizeHref(a) :
     a \in UNION {IF Crawlable(rs[i])
                    THEN {x \in Range(rs[i].html.anchors) : isInternalHref(x)}
                    ELSE {} : i \in 1..Len(rs)}}
    \ {rs[i].url : i \in 1..Len(rs)}

(* how the fetch of the start page can go for a page with markup: quick    *)
(* or slow, straight or through redirects, or met with a server error      *)
FetchVariants ==
  {<<200, 200, 0>>, <<200, MaxResponseTime + 1, 0>>, <<200, 200, RedirectChainHops - 1>>,
   <<200, 200, RedirectChainHops>>, <<503, 200, 0>>}

SinglePageInputs ==
  {[base |-> Str(Origin, 0),
    results |-> <<FetchResult(Str(Origin, 1), f[1], f[2], doc, f[3], FALSE)>>] :
     f \in FetchVariants, doc \in DetailedDocuments}

(* the start page of a site, fetched *)
SiteInputs ==
  {[base |-> b, results |-> <<r>>] :
     b \in BaseUrls, r \in UNION {SiteResults(sanitizeHref(c)) : c \in BaseUrls}}

AnalysisInputs ==
  SinglePageInputs \cup {in \in SiteInputs : in.results[1].url = sanitizeHref(in.base)}

(* ---- the analysis: its steps ---- *)
NoReport ==
  [errors |-> <<>>, warnings |-> <<>>,
   crawledPages |-> [total |-> 0, healthy |-> 0, withIssues |-> 0,
                     redirects |-> 0, broken |-> 0],
   totalPages |-> 0, pagesCrawled |-> 0,
   errorsCount |-> 0, warningsCount |-> 0, siteHealthScore |-> 0]

NoArgs == [errorsCount |-> 0, warningsCount |-> 0, totalPages |-> 0]

(* groups.reduce((sum, g) => sum + g.count, 0) *)
RECURSIVE SumCounts(_)
SumCounts(groups) ==
  IF groups = <<>> THEN 0 ELSE Head(groups).count + SumCounts(Tail(groups))

CountPages(ps, category) ==
  Cardinality({i \in 1..Len(ps) : category \in PageCategory(ps[i])})

calculateCrawledPagesBreakdown(ps) ==
  [total |-> Len(ps),
   healthy |-> CountPages(ps, "healthy"),
   withIssues |-> CountPages(ps, "withIssues"),
   redirects |-> CountPages(ps, "redirects"),
   broken |-> CountPages(ps, "broken")]

(* the summary with the groups counted in place of their issues *)
SummaryCountingGroups(g) ==
  [errors |-> g.errors, warnings |-> g.warnings,
   crawledPages |-> calculateCrawledPagesBreakdown(g.pages),
   totalPages |-> Len(g.pages),
   pagesCrawled |-> Len(g.pages),
   errorsCount |-> Len(g.errors),
   warningsCount |-> Len(g.warnings),
   siteHealthScore |-> calculateSiteHealthScore(Len(g.errors), Len(g.warnings),
                                                Len(g.pages))]

(* runAudit's summary data and the totals it stores, from errors and       *)
(* warnings as groupIssues gave them and the page list as it left it       *)
Summary(g) ==
  [errors |-> g.errors, warnings |-> g.warnings,
   crawledPages |-> calculateCrawledPagesBreakdown(g.pages),
   totalPages |-> Len(g.pages),
   pagesCrawled |-> Len(g.pages),
   errorsCount |-> SumCounts(g.errors),
   warningsCount |-> SumCounts(g.warnings),
   siteHealthScore |-> calculateSiteHealthScore(SumCounts(g.errors),
                                                SumCounts(g.warnings), Len(g.pages))]

(* nobody has asked for the progress stream *)
StreamIdle ==
  /\ sse = "none"
  /\ sseLast = "none"
  /\ sseMustTick = FALSE

(* the crawler's DEFAULT_CONFIG *)
DefaultConfig ==
  [maxPages |-> 50, maxDepth |-> 3, maxConcurrentRequests |-> 5,
   respectRobotsTxt |-> TRUE]

(* no crawl and no audit is under way *)
NoCrawl ==
  /\ config = DefaultConfig
  /\ visited = {}
  /\ queue = <<>>
  /\ results = <<>>
  /\ robotsTxt = NoRobots
  /\ activeRequests = 0
  /\ stopped = FALSE
  /\ pc = "idle"
  /\ inflight = {}
  /\ events = <<>>
  /\ log = <<>>
  /\ auditStatus = "pending"
  /\ auditProgress = NoEntry
  /\ writes = <<>>
  /\ auditPc = "created"
  /\ pageRows = 0
  /\ resultsStored = FALSE
  /\ StreamIdle

(* no analysis is under way *)
AnalysisIdle ==
  /\ auditUrl = NoString
  /\ crawlResults = <<>>
  /\ pageDataList = <<>>
  /\ anaPc = "idle"
  /\ probes = <<>>
  /\ report = NoReport
  /\ groupCalls = 0

(* no call of calculateSiteHealthScore is under way *)
ScoreIdle ==
  /\ scoreArgs = NoArgs
  /\ siteHealthScore = 0

(* the crawl has fetched the start page *)
AnalysisInit ==
  /\ NoCrawl
  /\ ScoreIdle
  /\ \E in \in AnalysisInputs : auditUrl = in.base /\ crawlResults = in.results
  /\ pageDataList = <<>>
  /\ anaPc = "analyze"
  /\ probes = <<>>
  /\ report = NoReport
  /\ groupCalls = 0

(* the crawl fetched one more page, found through an anchor of a page it   *)
(* had fetched, before it returned                                         *)
AnotherResult(r) ==
  /\ anaPc = "analyze"
  /\ Len(crawlResults) < MaxPagesAnalysed
  /\ r.url \in Frontier(crawlResults)
  /\ crawlResults' = Append(crawlResults, r)
  /\ UNCHANGED <<crawlVars, storeVars, streamVars, scoreVars, auditUrl, pageDataList, anaPc,
                 probes, report, groupCalls>>

(* the crawl returns, and runAudit hands its results to the analysis *)
AnalyzeCrawlResults ==
  /\ anaPc = "analyze"
  /\ pageDataList' = analyzeCrawlResults(crawlResults, auditUrl)
  /\ anaPc' = "brokenLinks"
  /\ UNCHANGED <<crawlVars, storeVars, streamVars, scoreVars, auditUrl, crawlResults, probes,
                 report, groupCalls>>

CheckBrokenLinks ==
  /\ anaPc = "brokenLinks"
  /\ pageDataList' = checkBrokenLinks(pageDataList, crawlResults)
  /\ anaPc' = "externalLinks"
  /\ UNCHANGED <<crawlVars, storeVars, streamVars, scoreVars, auditUrl, crawlResults, probes,
                 report, groupCalls>>

(* one run of checkExternalLinks, its HEAD requests ending as probe says.  *)
(* runAudit runs it once; it is exported, and may be run again.            *)
CheckExternalLinks(probe) ==
  /\ anaPc \in {"externalLinks", "aggregate"}
  /\ pageDataList' = checkExternalLinks(pageDataList, probe)
  /\ probes' = probe
  /\ anaPc' = "aggregate"
  /\ UNCHANGED <<crawlVars, storeVars, streamVars, scoreVars, auditUrl, crawlResults, report,
                 groupCalls>>

(* runAudit's summary data *)
Aggregate ==
  /\ anaPc = "aggregate"
  /\ LET g == groupIssues(pageDataList)
     IN  /\ pageDataList' = g.pages
         /\ report' = Summary(g)
  /\ groupCalls' = 1
  /\ probes' = <<>>
  /\ anaPc' = "done"
  /\ UNCHANGED <<crawlVars, storeVars, streamVars, scoreVars, auditUrl, crawlResults>>

(* groupIssues called once more on the same list *)
GroupIssuesAgain ==
  /\ anaPc = "done"
  /\ groupCalls = 1
  /\ LET g == groupIssues(pageDataList)
     IN  /\ pageDataList' = g.pages
         /\ report' = [report EXCEPT !.errors = g.errors, !.warnings = g.warnings]
  /\ groupCalls' = groupCalls + 1
  /\ UNCHANGED <<crawlVars, storeVars, streamVars, scoreVars, auditUrl, crawlResults, probes,
                 anaPc>>

AnalysisNext ==
  \/ \E u \in Frontier(crawlResults) : \E r \in SiteResults(u) : AnotherResult(r)
  \/ AnalyzeCrawlResults
  \/ CheckBrokenLinks
  \/ \E probe \in [Range(LinksToCheck(pageDataList)) -> ProbeOutcomes] : CheckExternalLinks(probe)
  \/ Aggregate
  \/ GroupIssuesAgain

AnalysisSpec == AnalysisInit /\ [][AnalysisNext]_vars

(* ---- calculateSiteHealthScore on its own ---- *)
ScoreInit ==
  /\ NoCrawl
  /\ auditUrl = NoString
  /\ crawlResults = <<>>
  /\ pageDataList = <<>>
  /\ probes = <<>>
  /\ report = NoReport
  /\ groupCalls = 0
  /\ anaPc = "score"
  /\ scoreArgs \in [errorsCount : 0..MaxIssueCount, warningsCount : 0..MaxIssueCount,
                    totalPages : 0..MaxTotalPages]
  /\ siteHealthScore = 0

CalculateScore ==
  /\ anaPc = "score"
  /\ siteHealthScore' = calculateSiteHealthScore(scoreArgs.errorsCount,
                                                 scoreArgs.warningsCount,
                                                 scoreArgs.totalPages)
  /\ anaPc' = "scored"
  /\ UNCHANGED <<crawlVars, storeVars, streamVars, auditUrl, crawlResults, pageDataList, probes,
                 report, groupCalls, scoreArgs>>

ScoreSpec == ScoreInit /\ [][CalculateScore]_vars

(* ---- one audit ---- *)
Init ==
  /\ config \in [maxPages : 1..MaxPagesBound,
                  maxDepth : 0..MaxDepthBound,
                  maxConcurrentRequests : 1..MaxConcBound,
                  respectRobotsTxt : BOOLEAN]
  /\ visited = {}
  /\ queue = <<>>
  /\ results = <<>>
  /\ robotsTxt = NoRobots
  /\ activeRequests = 0
  /\ stopped = FALSE
  /\ pc = "idle"
  /\ inflight = {}
  /\ events = <<>>
  /\ log = <<>>
  /\ auditStatus = "pending"
  /\ auditProgress = NoEntry
  /\ writes = <<>>
  /\ auditPc = "created"
  /\ pageRows = 0
  /\ resultsStored = FALSE
  /\ StreamIdle
  /\ AnalysisIdle
  /\ ScoreIdle

(* POST /api/audit: runAudit up to its first suspension, inside crawl() *)
StartAudit ==
  /\ auditPc = "created"
  /\ pc = "idle"
  /\ IF config.respectRobotsTxt
       THEN /\ pc' = "robots"
            /\ auditStatus' = "crawling"
            /\ auditProgress' = AuditEntry("initializing", 0, 0, FALSE)
            /\ writes' = Append(writes, "initializing")
            /\ auditPc' = "crawling"
            /\ UNCHANGED <<config, visited, queue, results, robotsTxt,
                           activeRequests, stopped, inflight, events, log>>
       ELSE BeginCrawl(robotsTxt, <<"initializing">>)
  /\ UNCHANGED <<config, stopped, storeVars, streamVars, analysisVars, scoreVars>>

(* fetchRobotsTxt settles: a 200 with some directives, or anything else *)
RobotsResponse(rt) ==
  /\ pc = "robots"
  /\ BeginCrawl(rt, <<>>)
  /\ UNCHANGED <<config, stopped, storeVars, streamVars, analysisVars, scoreVars>>

(* the 100 ms timer of processQueue fires *)
TimerWake ==
  /\ pc = "wait"
  /\ EndTurn(ProcessQueue(CrawlerState), results, <<>>, <<>>)
  /\ UNCHANGED <<config, stopped, storeVars, streamVars, analysisVars, scoreVars>>

(* axios.get of one crawlPage settles: the rest of crawlPage, then the     *)
(* finally callback                                                        *)
FetchComplete(f, resp) ==
  /\ pc \in {"wait", "drain"}
  /\ f \in inflight
  /\ LET q == IF ShouldExtract(resp)
                THEN EnqueueLinks(resp.links, queue, f.depth)
                ELSE queue
         res == Append(results, CrawlResult(f.url, resp))
         ev == Progress("crawling", Len(res), Max(Len(res), Len(q) + Len(res)), f.url)
         t == [CrawlerState EXCEPT
                 !.queue = q,
                 !.activeRequests = @ - 1,
                 !.inflight = @ \ {f}]
     IN  EndTurn(t, res, <<ev>>, <<>>)
  /\ UNCHANGED <<config, stopped, storeVars, streamVars, analysisVars, scoreVars>>

(* Crawler.stop(), called by whoever holds the crawler, between two turns *)
Stop ==
  /\ pc \in {"robots", "wait", "drain"}
  /\ ~stopped
  /\ stopped' = TRUE
  /\ UNCHANGED <<config, visited, queue, results, robotsTxt, activeRequests,
                 pc, inflight, events, log, auditStatus, auditProgress, writes,
                 auditPc, storeVars, streamVars, analysisVars, scoreVars>>

(* the outer while of processQueue going round without suspending: the     *)
(* event loop never gets the turn back                                     *)
Spin ==
  /\ pc = "spin"
  /\ UNCHANGED vars

(* the end of the try block with updateAuditComplete ahead of the loop     *)
(* that saves the pages                                                    *)
AnalyzeDoneBeforeSaving ==
  /\ auditPc = "analyzing"
  /\ auditStatus' = "complete"
  /\ auditProgress' = AuditEntry("complete", Len(results), 100, FALSE)
  /\ writes' = Append(writes, "complete")
  /\ auditPc' = "complete"
  /\ pageRows' = 0
  /\ resultsStored' = TRUE
  /\ sseMustTick' = (sse = "open")
  /\ UNCHANGED <<config, visited, queue, results, robotsTxt, activeRequests,
                 stopped, pc, inflight, events, log, analysisVars, scoreVars,
                 sse, sseLast>>

(* runAudit from 'analyzing' to the end of its try block.  It sets the     *)
(* 60 s timer that deletes the progress entry: the 500 ms interval of a    *)
(* stream that is open now fires before that timer does.                   *)
AnalyzeDone ==
  /\ auditPc = "analyzing"
  /\ auditStatus' = "complete"
  /\ auditProgress' = AuditEntry("complete", Len(results), 100, FALSE)
  /\ writes' = Append(writes, "complete")
  /\ auditPc' = "complete"
  /\ pageRows' = Len(results)    \* savePage once per analysed page
  /\ resultsStored' = TRUE       \* updateAuditComplete
  /\ sseMustTick' = (sse = "open")
  /\ UNCHANGED <<config, visited, queue, results, robotsTxt, activeRequests,
                 stopped, pc, inflight, events, log, analysisVars, scoreVars,
                 sse, sseLast>>

(* a step of the try block throws after saved of the pages went through   *)
(* savePage: the analysis or a link check (saved = 0), a savePage of the   *)
(* loop, or the aggregation or updateAuditComplete (every page saved).     *)
(* The catch block writes the status and the progress entry and deletes    *)
(* nothing.                                                                *)
AnalyzeThrow(saved) ==
  /\ auditPc = "analyzing"
  /\ pageRows' = saved
  /\ resultsStored' = FALSE
  /\ auditStatus' = "failed"
  /\ auditProgress' = AuditEntry("failed", 0, 0, TRUE)
  /\ writes' = Append(writes, "failed")
  /\ auditPc' = "failed"
  /\ UNCHANGED <<config, visited, queue, results, robotsTxt, activeRequests,
                 stopped, pc, inflight, events, log, analysisVars, scoreVars,
                 streamVars>>

(* the 60 s setTimeout of runAudit *)
Cleanup ==
  /\ auditPc = "complete"
  /\ ~sseMustTick
  /\ auditProgress' = NoEntry
  /\ auditPc' = "cleaned"
  /\ UNCHANGED <<config, visited, queue, results, robotsTxt, activeRequests,
                 stopped, pc, inflight, events, log, auditStatus, writes,
                 storeVars, streamVars, analysisVars, scoreVars>>

(* the turns of one crawl, from the call of crawl() to its return *)
CrawlNext ==
  \/ StartAudit
  \/ \E rt \in RobotsOutcomes : RobotsResponse(rt)
  \/ TimerWake
  \/ \E f \in inflight, resp \in Responses : FetchComplete(f, resp)
  \/ Stop
  \/ Spin

Next ==
  \/ CrawlNext
  \/ AnalyzeDone
  \/ \E saved \in 0..Len(results) : AnalyzeThrow(saved)
  \/ Cleanup

Spec == Init /\ [][Next]_vars

(* Every started network call settles (axios has a timeout), timers fire,  *)
(* and runAudit's own steps run.  stop() is the caller's choice.           *)
CrawlFairness ==
  /\ WF_vars(\E rt \in RobotsOutcomes : RobotsResponse(rt))
  /\ WF_vars(TimerWake)
  /\ WF_vars(\E f \in inflight, resp \in Responses : FetchComplete(f, resp))
  /\ WF_vars(StartAudit)

(* one crawl on its own, up to the return of crawl() *)
CrawlFairSpec == Init /\ [][CrawlNext]_vars /\ CrawlFairness

FairSpec ==
  /\ Spec
  /\ CrawlFairness
  /\ WF_vars(AnalyzeDone \/ \E saved \in 0..Len(results) : AnalyzeThrow(saved))
  /\ WF_vars(Cleanup)

(* ---- one crawl of a site four levels deep, under DEFAULT_CONFIG ---- *)
PageC == <<"a", "c">>

PageE == <<"a", "c", "e">>

PageF == <<"b", "f">>

(* the anchors of the site's pages: the start page links to /a and /b,     *)
(* /a to /a/c, /a/c to /a/c/e, /b to /b/f                                  *)
SiteLinks(path) ==
  LET to(ps) == [i \in 1..Len(ps) |-> Url("site", ps[i], "", FALSE)]
  IN  IF path = Root THEN to(<<PageA, PageB>>)
      ELSE IF path = PageA THEN to(<<PageC>>)
      ELSE IF path = PageC THEN to(<<PageE>>)
      ELSE IF path = PageB THEN to(<<PageF>>)
      ELSE <<>>

(* what axios.get of a page of the site can do: reject, or resolve with    *)
(* the page                                                                *)
PageResponses(url) ==
  {[kind |-> "error", status |-> 0, isString |-> FALSE, links |-> <<>>],
   [kind |-> "ok", status |-> 200, isString |-> TRUE, links |-> SiteLinks(url.path)]}

SiteCrawlInit == NoCrawl /\ AnalysisIdle /\ ScoreIdle

SiteCrawlNext ==
  \/ StartAudit
  \/ \E rt \in RobotsOutcomes : RobotsResponse(rt)
  \/ TimerWake
  \/ \E f \in inflight : \E resp \in PageResponses(f.url) : FetchComplete(f, resp)

SiteCrawlSpec == SiteCrawlInit /\ [][SiteCrawlNext]_vars

(* ---- GET /:id/progress: the progress stream of one subscriber ---- *)
TerminalStatuses == {"complete", "failed"}

(* the handler up to its return: sendProgress writes the entry of the id,  *)
(* or the 'initializing' default where the map has none, and the interval  *)
(* is set.  The id is known once POST /api/audit has answered.             *)
Subscribe ==
  /\ sse = "none"
  /\ auditPc # "created"
  /\ sse' = "open"
  /\ sseLast' = IF auditProgress = NoEntry THEN "initializing" ELSE auditProgress.status
  /\ sseMustTick' = FALSE
  /\ UNCHANGED <<crawlVars, storeVars, analysisVars, scoreVars>>

(* the 500 ms interval fires: an entry is written to the stream, and a     *)
(* terminal one ends it; without an entry nothing happens                  *)
StreamTick ==
  /\ sse = "open"
  /\ IF auditProgress # NoEntry
       THEN /\ sseLast' = auditProgress.status
            /\ sse' = IF auditProgress.status \in TerminalStatuses THEN "ended" ELSE "open"
       ELSE UNCHANGED <<sse, sseLast>>
  /\ sseMustTick' = FALSE
  /\ UNCHANGED <<crawlVars, storeVars, analysisVars, scoreVars>>

(* req.on('close'): the client has gone, the interval is cleared *)
ClientDisconnect ==
  /\ sse = "open"
  /\ sse' = "disconnected"
  /\ sseMustTick' = FALSE
  /\ UNCHANGED <<crawlVars, storeVars, analysisVars, scoreVars, sseLast>>

(* one audit of the site above, and one subscriber to its progress *)
StreamNext ==
  \/ SiteCrawlNext
  \/ AnalyzeDone
  \/ \E saved \in 0..Len(results) : AnalyzeThrow(saved)
  \/ Cleanup
  \/ Subscribe
  \/ StreamTick
  \/ ClientDisconnect

StreamSpec == SiteCrawlInit /\ [][StreamNext]_vars

(* Network calls settle, timers and intervals fire, runAudit's steps run.  *)
(* When a client subscribes, and whether it leaves, is the client's choice. *)
StreamFairness ==
  /\ WF_vars(StartAudit)
  /\ WF_vars(\E rt \in RobotsOutcomes : RobotsResponse(rt))
  /\ WF_vars(TimerWake)
  /\ WF_vars(\E f \in inflight : \E resp \in PageResponses(f.url) : FetchComplete(f, resp))
  /\ WF_vars(AnalyzeDone \/ \E saved \in 0..Len(results) : AnalyzeThrow(saved))
  /\ WF_vars(Cleanup)
  /\ WF_vars(StreamTick)

StreamFairSpec == StreamSpec /\ StreamFairness

(* ---- helpers of the properties ---- *)
FetchStarts == {i \in 1..Len(log) : log[i].outcome = "fetch"}

ResultUrls == {results[i].url : i \in 1..Len(results)}

CrawlStarted == pc \notin {"idle", "robots"}

(* C1: the result list of a crawl never holds more than maxPages results *)
C1_PageCap == Len(results) <= config.maxPages

(* C2: each sanitized URL is marked visited at most once, before its fetch *)
(* starts, and no two results have the same sanitized url                  *)
C2_NoRevisit ==
  /\ \A i, j \in 1..Len(results) :
        i # j => sanitizeUrlForCrawl(results[i].url) # sanitizeUrlForCrawl(results[j].url)
  /\ \A i, j \in FetchStarts :
        i # j => sanitizeUrlForCrawl(log[i].url) # sanitizeUrlForCrawl(log[j].url)
  /\ \A f \in inflight : f.url \in visited
  /\ ResultUrls \subseteq visited

C2_Witness ==
  /\ pc = "returned"
  /\ Len(results) >= 2
  /\ \E i \in 1..Len(log) : log[i].outcome = "visited"

(* C3: the number of fetches in flight stays between 0 and                 *)
(* maxConcurrentRequests, and is 0 when crawl has returned                 *)
C3_BoundedConcurrency ==
  /\ activeRequests >= 0
  /\ activeRequests <= config.maxConcurrentRequests
  /\ activeRequests = Cardinality(inflight)
  /\ pc = "returned" => activeRequests = 0

C3_Witness ==
  /\ pc = "wait"
  /\ activeRequests = config.maxConcurrentRequests
  /\ Len(queue) > 0
  /\ Len(results) < config.maxPages
  /\ ~stopped

(* C4: once a terminal status (complete, failed) has been written to the   *)
(* progress entry of the audit, nothing is written to it afterwards        *)
C4_TerminalIsFinal ==
  \A i \in 1..Len(writes) :
    writes[i] \in {"complete", "failed"} => i = Len(writes)

(* C5: a fetch that fails at transport level becomes a result with         *)
(* statusCode 0 and error set, appended and counted like any other, and    *)
(* the crawl goes on                                                       *)
C5_FailureIsAResult ==
  /\ [](\A i \in 1..Len(results) :
          /\ results[i].error <=> (results[i].statusCode = 0)
          /\ results[i].error => ~results[i].html)
  /\ [](Len(results) + Cardinality(inflight) = Cardinality(FetchStarts))
  /\ []((CrawlStarted /\ pc # "returned") =>
          (Last(events).pagesCrawled = Len(results)))
  /\ [][(Len(results') = Len(results) + 1 /\ Last(results').error) =>
          (/\ queue' = queue
           /\ stopped' = stopped
           /\ auditStatus' # "failed"
           /\ (pc' = pc \/ (pc = "drain" /\ inflight' = {} /\ pc' = "returned")))]_vars

C5_Witness ==
  /\ config.maxConcurrentRequests = 1
  /\ \E i, j \in 1..Len(results) :
        i < j /\ results[i].error /\ results[j].statusCode = 200

(* C6: a URL the robots policy disallows is never fetched, never marked    *)
(* visited, never in the results, and is not evaluated or queued again     *)
C6_RobotsGate ==
  \A i \in 1..Len(log) :
    log[i].outcome = "robots" =>
      LET u == sanitizeUrlForCrawl(log[i].url)
      IN  /\ u \notin visited
          /\ u \notin ResultUrls
          /\ \A f \in inflight : f.url # u
          /\ \A j \in 1..Len(log) :
                (j # i /\ log[j].outcome = "robots") => sanitizeUrlForCrawl(log[j].url) # u
          /\ \A k \in 1..Len(queue) : sanitizeUrlForCrawl(queue[k].url) # u

(* C7: the start URL has depth 0, a link found on a page of depth d is     *)
(* queued with depth d+1, and nothing deeper than maxDepth is fetched      *)
C7_DepthCap ==
  /\ Len(log) > 0 => (log[1].url = StartUrl /\ log[1].depth = 0)
  /\ \A i \in FetchStarts : log[i].depth <= config.maxDepth
  /\ \A f \in inflight : f.depth <= config.maxDepth
  /\ \A u \in ResultUrls :
        \E i \in FetchStarts :
          sanitizeUrlForCrawl(log[i].url) = u /\ log[i].depth <= config.maxDepth
  /\ \A k \in 1..Len(queue) :
        \/ queue[k] = [url |-> StartUrl, depth |-> 0] /\ log = <<>>
        \/ \E i \in FetchStarts :
             /\ queue[k].depth = log[i].depth + 1
             /\ sanitizeUrlForCrawl(log[i].url) \in ResultUrls
  /\ \A k \in 2..Len(log) :
        \E i \in FetchStarts : i < k /\ log[k].depth = log[i].depth + 1

C7_Witness ==
  /\ pc = "returned"
  /\ \E i \in 1..Len(log) : log[i].outcome = "depth"

(* C8: the progress events are non-decreasing in pagesCrawled, there is    *)
(* one per fetch completion, in completion order, and 'complete' is last   *)
C8_ProgressOrder ==
  /\ \A i \in 1..(Len(events) - 1) :
        events[i + 1].pagesCrawled >= events[i].pagesCrawled
  /\ CrawlStarted =>
        /\ events[1] = Progress("crawling", 0, 1, StartUrl)
        /\ Len(events) = 1 + Len(results) + (IF pc = "returned" THEN 1 ELSE 0)
  /\ \A k \in 1..Len(results) :
        /\ events[k + 1].status = "crawling"
        /\ events[k + 1].pagesCrawled = k
        /\ events[k + 1].currentUrl = results[k].url
  /\ \A i \in 1..Len(events) :
        events[i].status = "complete" =>
          /\ i = Len(events)
          /\ pc = "returned"
          /\ events[i].pagesCrawled = Len(results)

(* two fetches completed in the opposite order of their start *)
C8_Witness ==
  /\ pc = "returned"
  /\ \E i, j \in FetchStarts :
        /\ i < j
        /\ \E a, b \in 1..Len(results) :
              /\ b < a
              /\ results[a].url = sanitizeUrlForCrawl(log[i].url)
              /\ results[b].url = sanitizeUrlForCrawl(log[j].url)

(* C9: after stop() nothing more is dequeued and no fetch is started; the  *)
(* fetches in flight complete and are in the returned list; the crawl      *)
(* emits 'complete' and returns                                            *)
C9_Cancellation ==
  /\ [][stopped => (log' = log /\ inflight' \subseteq inflight
                      /\ visited' = visited)]_vars
  /\ []((stopped /\ pc = "returned") =>
          (ResultUrls = visited /\ Last(events).status = "complete"))
  /\ (stopped ~> pc = "returned")

C9_Witness ==
  /\ stopped
  /\ pc = "returned"
  /\ Len(queue) > 0
  /\ Len(results) >= 2

(* C10: the control loop exits, and crawl returns, once no fetch is in     *)
(* flight and no further URL will be dequeued (the frontier is empty, the  *)
(* page cap is reached, or stop was signalled): whenever that holds and    *)
(* processQueue is not asleep on its timer, crawl has returned             *)
C10_Termination ==
  (/\ CrawlStarted
   /\ pc # "wait"
   /\ activeRequests = 0
   /\ Len(queue) = 0 \/ Len(results) >= config.maxPages \/ stopped)
    => pc = "returned"

(* ---- the analysis and the aggregation ---- *)
Categories == {"healthy", "withIssues", "redirects", "broken"}

(* C11: calculateCrawledPagesBreakdown returns total = pages.length and    *)
(* healthy + withIssues + redirects + broken = total, each page being      *)
(* counted in exactly one of the four categories                           *)
C11_BreakdownPartition ==
  anaPc = "done" =>
    LET b == report.crawledPages
    IN  /\ b.total = Len(pageDataList)
        /\ b.healthy + b.withIssues + b.redirects + b.broken = b.total
        /\ \A c \in Categories : b[c] >= 0
        /\ \A i \in 1..Len(pageDataList) :
              Cardinality(PageCategory(pageDataList[i]) \cap Categories) = 1

(* two pages, one healthy, one with a server error and an issue for it *)
C11_Witness ==
  /\ anaPc = "done"
  /\ report.crawledPages.total = 2
  /\ report.crawledPages.healthy = 1
  /\ report.crawledPages.broken = 1
  /\ \E i \in 1..Len(pageDataList) :
        pageDataList[i].statusCode >= 400 /\ Len(pageDataList[i].issues) > 0

(* C12: for non-negative errorsCount, warningsCount and totalPages,        *)
(* calculateSiteHealthScore returns an integer in [0,100]; it returns 100  *)
(* when errorsCount = warningsCount = 0 and totalPages > 0, and 0 when     *)
(* totalPages = 0                                                          *)
C12_ScoreRange ==
  anaPc = "scored" =>
    /\ siteHealthScore \in 0..100
    /\ (scoreArgs.errorsCount = 0 /\ scoreArgs.warningsCount = 0
          /\ scoreArgs.totalPages > 0) => siteHealthScore = 100
    /\ scoreArgs.totalPages = 0 => siteHealthScore = 0

(* more deductions than checks: the score is held at 0 *)
C12_Witness ==
  /\ anaPc = "scored"
  /\ scoreArgs.totalPages > 0
  /\ scoreArgs.errorsCount * errorWeight + scoreArgs.warningsCount * warningWeight
       > scoreArgs.totalPages * CHECKS_PER_PAGE
  /\ siteHealthScore = 0

HomepageForms(base) ==
  {base, addSlash(base)} \cup (IF endsWithSlash(base) THEN {dropSlash(base)} ELSE {})

AllInternalLinks ==
  UNION {Range(pageDataList[i].internalLinks) : i \in 1..Len(pageDataList)}

(* C14: orphan detection never flags the home page: the page whose url is  *)
(* the base URL, with or without a trailing slash, never gets orphan_page, *)
(* also when no page links to it                                           *)
C14_HomepageNeverOrphan ==
  \A i \in 1..Len(pageDataList) :
    pageDataList[i].url \in HomepageForms(auditUrl) =>
      ~HasIssue(pageDataList[i], "orphan_page")

(* no page links to the home page, and another page was flagged *)
C14_Witness ==
  /\ anaPc = "brokenLinks"
  /\ pageDataList[1].url \in HomepageForms(auditUrl)
  /\ AllInternalLinks \cap HomepageForms(auditUrl) = {}
  /\ \E j \in 2..Len(pageDataList) : HasIssue(pageDataList[j], "orphan_page")

(* C15: missing_h1 and multiple_h1 agree with h1Count on every analyzed    *)
(* page: with h1Count = 0 no multiple_h1, with h1Count > 1 no missing_h1,  *)
(* with h1Count = 1 neither                                                *)
C15_H1Consistent ==
  \A i \in 1..Len(pageDataList) :
    LET page == pageDataList[i]
    IN  /\ page.h1Count = 0 => ~HasIssue(page, "multiple_h1")
        /\ page.h1Count > 1 => ~HasIssue(page, "missing_h1")
        /\ page.h1Count = 1 =>
              (~HasIssue(page, "missing_h1") /\ ~HasIssue(page, "multiple_h1"))

(* a page with two h1 elements, flagged for it, next to other findings *)
C15_Witness ==
  /\ anaPc = "done"
  /\ \E i \in 1..Len(pageDataList) :
        /\ pageDataList[i].h1Count = 2
        /\ HasIssue(pageDataList[i], "multiple_h1")
        /\ HasIssue(pageDataList[i], "missing_title")

(* the codes of the issues of one type on a page, in the order they were   *)
(* attached, leaving out the ones the passes over all pages attach         *)
CrossPageCodes == {"orphan_page", "broken_internal_link", "broken_external_link"}

OwnCodes(page, type) ==
  LET own == SelectSeq(page.issues,
                       LAMBDA x : x.type = type /\ x.code \notin CrossPageCodes)
  IN  [k \in 1..Len(own) |-> own[k].code]

(* what neither scenario of the specification says about a page: it has a  *)
(* robots meta tag, enough text, and is neither large nor slow             *)
QuietOtherwise(result) ==
  /\ result.html.robotsMeta
  /\ ~LowTextToHtmlRatio(result.html)
  /\ htmlLength(result.html) <= MaxPageSize
  /\ result.responseTime <= MaxResponseTime

(* a title of 45 and a meta description of 100 characters, one h1,         *)
(* canonical and viewport, no Open Graph tag, no image                     *)
OgScenario(result) ==
  /\ result.html # NoHtml
  /\ result.html.title = 45
  /\ result.html.metaDescription = 100
  /\ result.html.h1 = 1
  /\ result.html.canonical
  /\ result.html.viewport
  /\ result.html.og = {}
  /\ result.html.images.total = 0

Analyzed == anaPc \notin {"idle", "analyze", "score", "scored"}

(* C16 as stated: a page as in OgScenario gets exactly one warning,        *)
(* missing_og_tags, and no error                                           *)
C16_OnlyOgWarning ==
  Analyzed =>
    \A i \in 1..Len(crawlResults) :
      OgScenario(crawlResults[i]) =>
        /\ OwnCodes(pageDataList[i], "warning") = <<"missing_og_tags">>
        /\ OwnCodes(pageDataList[i], "error") = <<>>

(* C16, amended: a page as in OgScenario that also has a robots meta tag,  *)
(* a text-to-HTML ratio of at least 10, at most 3 MiB of markup, a         *)
(* response within 3000 ms, a status below 500 and fewer than 3 redirect   *)
(* hops gets from analyzePage exactly one warning, missing_og_tags, and no *)
(* error                                                                   *)
C16_OnlyOgWarningWhenQuiet ==
  Analyzed =>
    \A i \in 1..Len(crawlResults) :
      (/\ OgScenario(crawlResults[i])
       /\ QuietOtherwise(crawlResults[i])
       /\ crawlResults[i].statusCode < 500
       /\ crawlResults[i].redirectChain < RedirectChainHops) =>
        /\ OwnCodes(pageDataList[i], "warning") = <<"missing_og_tags">>
        /\ OwnCodes(pageDataList[i], "error") = <<>>

C16_Witness ==
  /\ anaPc = "done"
  /\ OgScenario(crawlResults[1])
  /\ QuietOtherwise(crawlResults[1])
  /\ crawlResults[1].statusCode = 200
  /\ crawlResults[1].redirectChain = 0
  /\ Len(pageDataList[1].issues) = 1
  /\ report.warningsCount = 1
  /\ report.errorsCount = 0

AllCodes(page) == [k \in 1..Len(page.issues) |-> page.issues[k].code]

(* C17: a result with statusCode 503 and no markup leaves the analysis     *)
(* pass with issues equal to [server_error_5xx] and nothing else           *)
C17_OnlyServerError ==
  Analyzed =>
    \A i \in 1..Len(crawlResults) :
      (crawlResults[i].statusCode = 503 /\ crawlResults[i].html = NoHtml) =>
        AllCodes(pageDataList[i]) = <<"server_error_5xx">>

(* reached through 3 redirect hops, status 200, title and meta description *)
(* of valid length, canonical, viewport and Open Graph tags, one h1, alt   *)
(* text on all images                                                      *)
RedirectScenario(result) ==
  /\ result.redirectChain = 3
  /\ result.statusCode = 200
  /\ result.html # NoHtml
  /\ result.html.title >= TitleMinLength
  /\ result.html.title <= TitleMaxLength
  /\ result.html.metaDescription >= MetaDescriptionMinLength
  /\ result.html.metaDescription <= MetaDescriptionMaxLength
  /\ result.html.canonical
  /\ result.html.viewport
  /\ result.html.og # {}
  /\ result.html.h1 = 1
  /\ result.html.images.withoutAlt = 0

(* C18 as stated: a page as in RedirectScenario gets exactly one error,    *)
(* redirect_chain, and no warning                                          *)
C18_OnlyRedirectChain ==
  Analyzed =>
    \A i \in 1..Len(crawlResults) :
      RedirectScenario(crawlResults[i]) =>
        /\ OwnCodes(pageDataList[i], "error") = <<"redirect_chain">>
        /\ OwnCodes(pageDataList[i], "warning") = <<>>

(* C18, amended: a page as in RedirectScenario that also has a robots meta *)
(* tag, a text-to-HTML ratio of at least 10, at most 3 MiB of markup and a *)
(* response within 3000 ms gets from analyzePage exactly one error,        *)
(* redirect_chain, and no warning                                          *)
C18_OnlyRedirectChainWhenQuiet ==
  Analyzed =>
    \A i \in 1..Len(crawlResults) :
      (RedirectScenario(crawlResults[i]) /\ QuietOtherwise(crawlResults[i])) =>
        /\ OwnCodes(pageDataList[i], "error") = <<"redirect_chain">>
        /\ OwnCodes(pageDataList[i], "warning") = <<>>

C18_Witness ==
  /\ anaPc = "done"
  /\ RedirectScenario(crawlResults[1])
  /\ QuietOtherwise(crawlResults[1])
  /\ crawlResults[1].html.images.total > 0
  /\ Len(pageDataList[1].issues) = 1
  /\ report.errorsCount = 1
  /\ report.warningsCount = 0

CountIssues(page, code) == Len(SelectSeq(page.issues, LAMBDA x : x.code = code))

(* page links to an external URL that the probes pr found broken *)
LinksToBroken(page, pr) ==
  \E k \in 1..Len(page.externalLinks) :
    /\ page.externalLinks[k] \in DOMAIN pr
    /\ pr[page.externalLinks[k]] # "ok"

(* C19: after checkExternalLinks a page that links to at least one probed  *)
(* external URL found broken (status >= 400 or a transport failure)        *)
(* carries exactly one broken_external_link issue, however many of its     *)
(* links are broken and however often checkExternalLinks runs; and a       *)
(* link's verdict depends on its own probe only: after the first run a     *)
(* page is flagged exactly if one of its own links was found broken        *)
C19_OneBrokenExternalIssue ==
  /\ [](anaPc = "aggregate" =>
          (\A i \in 1..Len(pageDataList) :
             LinksToBroken(pageDataList[i], probes) =>
               (CountIssues(pageDataList[i], "broken_external_link") = 1)))
  /\ [](\A i \in 1..Len(pageDataList) :
          CountIssues(pageDataList[i], "broken_external_link") <= 1)
  /\ [][(anaPc = "externalLinks" /\ anaPc' = "aggregate") =>
          (\A i \in 1..Len(pageDataList') :
             HasIssue(pageDataList'[i], "broken_external_link")
               <=> LinksToBroken(pageDataList'[i], probes'))]_vars

(* a page with two external links, one answering with an error status,    *)
(* the other failing in transport                                          *)
C19_Witness ==
  /\ anaPc = "aggregate"
  /\ \E i \in 1..Len(pageDataList) :
        /\ Len(pageDataList[i].externalLinks) = 2
        /\ probes[pageDataList[i].externalLinks[1]] = "status>=400"
        /\ probes[pageDataList[i].externalLinks[2]] = "throws"
        /\ CountIssues(pageDataList[i], "broken_external_link") = 1

(* C20: when a step of the audit raises, the audit ends with persisted     *)
(* status failed and a failed progress entry carrying the error, no page   *)
(* record and no results payload of the audit remains stored, and failed   *)
(* is the last status ever written                                         *)
C20_FailedKeepsNothing ==
  /\ auditPc = "failed" =>
        /\ auditStatus = "failed"
        /\ auditProgress = AuditEntry("failed", 0, 0, TRUE)
        /\ pageRows = 0
        /\ resultsStored = FALSE
  /\ \A i \in 1..Len(writes) : writes[i] = "failed" => i = Len(writes)

(* C21: every progress entry that reaches a terminal status, complete or  *)
(* failed, is eventually deleted from the progress store                   *)
C21_TerminalEntryDeleted ==
  (auditPc \in {"complete", "failed"}) ~> (auditProgress = NoEntry)

(* max(0, 100 - deductions * 100 / totalChecks) rounded to the nearest     *)
(* integer, halves upwards, in exact arithmetic                            *)
ExactScore(errorsCount, warningsCount, totalPages) ==
  LET totalChecks == totalPages * CHECKS_PER_PAGE
      deductions == errorsCount * errorWeight + warningsCount * warningWeight
  IN  IF deductions >= totalChecks THEN 0
      ELSE RoundDiv(100 * totalChecks - 100 * deductions, totalChecks)

(* C22: for totalPages > 0 calculateSiteHealthScore(e, w, n) equals        *)
(* max(0, 100 - (10*e + 2*w) * 100 / (16*n)) rounded to the nearest        *)
(* integer, halves rounded up; and the score does not increase when e or   *)
(* w increases with n fixed                                                *)
C22_ScoreFormula ==
  (anaPc = "scored" /\ scoreArgs.totalPages > 0) =>
    /\ siteHealthScore = ExactScore(scoreArgs.errorsCount, scoreArgs.warningsCount,
                                    scoreArgs.totalPages)
    /\ calculateSiteHealthScore(scoreArgs.errorsCount + 1, scoreArgs.warningsCount,
                                scoreArgs.totalPages) <= siteHealthScore
    /\ calculateSiteHealthScore(scoreArgs.errorsCount, scoreArgs.warningsCount + 1,
                                scoreArgs.totalPages) <= siteHealthScore

RECURSIVE TotalIssues(_, _)
TotalIssues(ps, code) ==
  IF ps = <<>> THEN 0 ELSE CountIssues(Head(ps), code) + TotalIssues(Tail(ps), code)

PresentCodes(ps) ==
  UNION {{ps[i].issues[k].code : k \in 1..Len(ps[i].issues)} : i \in 1..Len(ps)}

Descending(groups) ==
  \A i, j \in 1..Len(groups) : i < j => groups[i].count >= groups[j].count

(* C23: groupIssues returns one group per issue code present; its count is *)
(* the number of issues with that code over all pages, its urls hold each  *)
(* affected page url exactly once, it stands in errors or in warnings as   *)
(* the taxonomy says, and each bucket is sorted by descending count        *)
C23_GroupsMatchPages ==
  anaPc = "done" =>
    LET groups == report.errors \o report.warnings
    IN  /\ \A c \in PresentCodes(pageDataList) :
              Cardinality({g \in 1..Len(groups) : groups[g].code = c}) = 1
        /\ \A g \in 1..Len(groups) :
              /\ groups[g].code \in PresentCodes(pageDataList)
              /\ groups[g].count = TotalIssues(pageDataList, groups[g].code)
              /\ Range(groups[g].urls) =
                    {pageDataList[i].url : i \in {j \in 1..Len(pageDataList) :
                                            HasIssue(pageDataList[j], groups[g].code)}}
              /\ \A a, b \in 1..Len(groups[g].urls) :
                    groups[g].urls[a] = groups[g].urls[b] => a = b
        /\ \A g \in 1..Len(report.errors) :
              IssueDefinitions[report.errors[g].code] = "error"
        /\ \A g \in 1..Len(report.warnings) :
              IssueDefinitions[report.warnings[g].code] = "warning"
        /\ Descending(report.errors)
        /\ Descending(report.warnings)

(* two error groups that the sort had to exchange: the code met first on   *)
(* the first page is on one page, the code met second is on two            *)
C23_Witness ==
  /\ anaPc = "done"
  /\ Len(report.errors) = 2
  /\ report.errors[1].count = 2
  /\ Len(report.errors[1].urls) = 2
  /\ report.errors[2].count = 1
  /\ Len(pageDataList[1].issues) >= 2
  /\ pageDataList[1].issues[1].code = report.errors[2].code
  /\ pageDataList[1].issues[2].code = report.errors[1].code

(* the forms under which checkBrokenLinks looks a link up *)
LookupForms(link) ==
  {link, addSlash(link), IF endsWithSlash(link) THEN dropSlash(link) ELSE link}

(* link, under one of its forms, is a crawled URL that answered 4xx or 5xx *)
LinksToBrokenPage(link, rs) ==
  \E i \in 1..Len(rs) :
    /\ rs[i].url \in LookupForms(link)
    /\ rs[i].statusCode >= 400
    /\ rs[i].statusCode < 600

(* C24: after checkBrokenLinks a page carries broken_internal_link if and  *)
(* only if one of its internal links, looked up exactly or with a trailing *)
(* slash added or removed, is a crawled URL with a statusCode in           *)
(* [400,600); it carries the issue at most once; links to URLs that were   *)
(* not crawled or have statusCode 0 are never flagged                      *)
C24_BrokenInternalLink ==
  anaPc \in {"externalLinks", "aggregate", "done"} =>
    \A i \in 1..Len(pageDataList) :
      /\ HasIssue(pageDataList[i], "broken_internal_link")
            <=> \E k \in 1..Len(pageDataList[i].internalLinks) :
                  LinksToBrokenPage(pageDataList[i].internalLinks[k], crawlResults)
      /\ CountIssues(pageDataList[i], "broken_internal_link") <= 1

(* the moves of the persisted status that the claim allows *)
StatusMoves ==
  {<<"pending", "crawling">>, <<"crawling", "analyzing">>, <<"analyzing", "complete">>,
   <<"crawling", "failed">>, <<"analyzing", "failed">>}

(* C25: the persisted status only moves along pending -> crawling ->       *)
(* analyzing -> complete, with failed reached from crawling or analyzing   *)
(* only; complete and failed are terminal; the results are written once,   *)
(* in the step that sets status complete, after every page has been        *)
(* analysed, link-checked and saved                                        *)
C25_StatusLifecycle ==
  /\ [][auditStatus' # auditStatus => <<auditStatus, auditStatus'>> \in StatusMoves]_vars
  /\ [][resultsStored' # resultsStored =>
          /\ resultsStored = FALSE
          /\ auditStatus = "analyzing"
          /\ auditStatus' = "complete"
          /\ pageRows' = Len(results')]_vars
  /\ [][resultsStored => UNCHANGED <<resultsStored, pageRows, auditStatus>>]_vars
  /\ [](auditStatus = "complete" <=> resultsStored)

(* a completed audit of two pages or more *)
C25_Witness ==
  /\ auditStatus = "complete"
  /\ resultsStored
  /\ pageRows = Len(results)
  /\ pageRows >= 2

(* the queue is first in, first out: a turn takes items off its front and *)
(* adds items at its back                                                  *)
FifoStep ==
  \E k \in 0..Len(queue) :
    /\ Len(queue') >= Len(queue) - k
    /\ SubSeq(queue', 1, Len(queue) - k) = SubSeq(queue, k + 1, Len(queue))

(* C26: the frontier is FIFO and the traversal breadth-first: URLs are     *)
(* dequeued in the order they were enqueued, and fetches are started in    *)
(* non-decreasing depth order, under every interleaving of fetch           *)
(* completions                                                             *)
C26_BreadthFirst ==
  /\ [][FifoStep]_vars
  /\ [](\A i, j \in FetchStarts : i < j => log[i].depth <= log[j].depth)

FetchedWithoutIssues(page) ==
  /\ page.statusCode >= 200
  /\ page.statusCode < 300
  /\ page.issues = <<>>

(* C27: every page counted as healthy by calculateCrawledPagesBreakdown    *)
(* has a statusCode in [200,300) and an empty issue list; a page whose     *)
(* fetch failed in transport (statusCode 0, no HTML) is never counted as   *)
(* healthy                                                                 *)
C27_HealthyWasFetched ==
  anaPc = "done" =>
    /\ \A i \in 1..Len(pageDataList) :
          "healthy" \in PageCategory(pageDataList[i]) =>
            FetchedWithoutIssues(pageDataList[i])
    /\ report.crawledPages.healthy =
          Cardinality({i \in 1..Len(pageDataList) : FetchedWithoutIssues(pageDataList[i])})

(* the issues of the given severity over all pages *)
RECURSIVE IssuesOfType(_, _)
IssuesOfType(ps, type) ==
  IF ps = <<>> THEN 0
  ELSE Len(SelectSeq(Head(ps).issues, LAMBDA x : x.type = type))
         + IssuesOfType(Tail(ps), type)

(* C28: in a completed audit the stored totals agree with the stored       *)
(* pages: totalPages = pagesCrawled = crawledPages.total = number of pages *)
(* = number of FetchResults, errorsCount and warningsCount are the numbers *)
(* of error and of warning issues over all pages, and siteHealthScore is   *)
(* the score of these three numbers                                        *)
C28_TotalsAgree ==
  anaPc = "done" =>
    /\ report.totalPages = Len(pageDataList)
    /\ report.pagesCrawled = Len(pageDataList)
    /\ report.crawledPages.total = Len(pageDataList)
    /\ Len(pageDataList) = Len(crawlResults)
    /\ report.errorsCount = IssuesOfType(pageDataList, "error")
    /\ report.warningsCount = IssuesOfType(pageDataList, "warning")
    /\ report.siteHealthScore =
          calculateSiteHealthScore(report.errorsCount, report.warningsCount,
                                   report.totalPages)

(* several pages, and an error that two of them share *)
C28_Witness ==
  /\ anaPc = "done"
  /\ Len(pageDataList) >= 2
  /\ report.errorsCount > Len(report.errors)
  /\ report.siteHealthScore < 100
  /\ report.siteHealthScore > 0

(* C29: every progress stream opened for an audit id eventually delivers  *)
(* a terminal status and is then closed by the server, whenever the        *)
(* subscriber connects (a subscriber that leaves on its own is no concern) *)
C29_StreamEnds ==
  (sse = "open") ~>
     (sse = "disconnected" \/ (sse = "ended" /\ sseLast \in TerminalStatuses))

(* C30: a subscriber never observes status complete for an audit whose     *)
(* results are not persisted: whenever the progress entry holds complete,  *)
(* and whenever the stream has delivered complete, the stored audit has    *)
(* status complete with its results and all of its pages                   *)
C30_CompleteMeansPersisted ==
  /\ auditProgress.status = "complete" =>
        (auditStatus = "complete" /\ resultsStored /\ pageRows = Len(results))
  /\ (sse # "none" /\ sseLast = "complete") =>
        (auditStatus = "complete" /\ resultsStored /\ pageRows = Len(results))

(* a stream opened during the crawl that ended on the complete entry *)
C30_Witness ==
  /\ sse = "ended"
  /\ sseLast = "complete"
  /\ resultsStored
  /\ Len(results) >= 2
  /\ auditProgress.status = "complete"

====
